---- MODULE Spec2Model ----
(***************************************************************************)
(* Model of crawl.py: the paginated review crawler.                        *)
(*                                                                         *)
(* The main process reads the review count (get_info), derives the page    *)
(* count, and run_all maps run() over one task per page with a process     *)
(* pool.  Each worker runs run(): an unbounded retry loop around _run(),   *)
(* which opens a browser handle, loads the page, optionally clicks the     *)
(* sort button, clicks its way to the page (goto_page) and extracts the    *)
(* review items (crawl_review_items).                                      *)
(*                                                                         *)
(* The specifications share the worker actions:                            *)
(*   Spec     the whole program on a small site (a few pages);             *)
(*   SpecNav  one call of run() for every page number up to MAX_NUM_PAGE;  *)
(*   SpecMain the main process up to the dispatch, for every review count; *)
(*   SpecLive the whole program on three full pages, with fair scheduling; *)
(*   SpecPlan run() alone, with page numbers below 1 among its inputs;     *)
(*   SpecSite the whole program on a site without failures, scheduled      *)
(*            fairly, for review counts that end on a short page.          *)
(***************************************************************************)
EXTENDS Integers, Sequences, FiniteSets, TLC

\* ---------------------------------------------------------------- constants

NUM_ITEMS_PER_PAGE == 20

MAX_NUM_PAGE == 100

\* The literal timeout of every WebDriverWait.
WAIT_TIMEOUT == 10

\* ------------------------------------------------------------------- bounds

\* Largest --cpu-count explored.
MaxCpu == 2

\* Cap on the number of transient failures in one run (the retry loop itself
\* has no ceiling).
MaxFails == 2

\* Largest review count explored by SpecMain.
MaxReview == 2100

\* Number of page numbers below 1 explored by SpecPlan (0, -1, ...).
BelowOne == 2

\* Review counts of the small site of Spec: 25 gives a full page and a page
\* of 5 items, 40 gives two full pages.
Reviews == {25, 40}

\* --max-page values of Spec; 0 stands for "not given".
MaxPageArgs == {0, 2}

\* ---------------------------------------------------------------- variables

VARIABLES
    num_review,     \* the review count the site shows (read by get_info)
    max_page,       \* args.max_page; 0 when not given
    cpu_count,      \* args.cpu_count
    debug,          \* args.debug
    sort_with,      \* args.sort_with
    mainPc,         \* position of the main process
    infoDrv,        \* the handle of get_info: "none", "open" or "quit"
    page_numbers,   \* the list handed to run_all
    nextTask,       \* index of the next task the pool hands to a worker
    results,        \* imap's buffer: task index -> result (NoResult while pending)
    overtaken,      \* a result has arrived while an earlier task was still pending
    collected,      \* task indices in the order imap yielded them
    review_list,    \* the page results gathered by run_all, in yield order
    written,        \* df.to_excel has run
    pc,             \* worker -> position inside run()/_run()
    task,           \* worker -> index of its task (0 when idle)
    page,           \* worker -> args.page_number of its task
    attempts,       \* worker -> iteration of the while loop of run()
    exc,            \* worker -> exception that ended the latest attempt
    drv,            \* worker -> the attempt's handle is open
    shown,          \* worker -> page displayed by its browser (0: nothing loaded)
    win,            \* worker -> paginator window displayed (0: first)
    clicks,         \* worker -> slots clicked by click_pagination_button, in order
    i,              \* worker -> loop variable of goto_page
    sorted,         \* worker -> the sort button has been clicked
    ret,            \* worker -> value returned by run()
    nfail,          \* transient failures so far, all workers
    timeout,        \* timeout given to WebDriverWait
    leaked,         \* handles still open after the attempt that opened them ended
    abandoned,      \* task indices whose run() met Blocked or an interrupt
    max_page_given, \* --max-page was on the command line
    info,           \* outcome of get_info ("none" before it has run)
    history         \* the counters nfail and attempts are kept (and capped)

mainVars == <<num_review, max_page, max_page_given, cpu_count, debug, sort_with,
              mainPc, infoDrv, info, history, page_numbers, written>>

poolVars == <<nextTask, results, overtaken, collected, review_list>>

browserVars == <<shown, win, clicks, i, sorted>>

workerVars == <<pc, task, page, attempts, exc, drv, ret, nfail, timeout, leaked,
                abandoned>>

workerVarsButPc == <<task, page, attempts, exc, drv, ret, nfail, timeout, leaked,
                     abandoned>>

vars == <<mainVars, poolVars, browserVars, workerVars>>

Workers == 1..cpu_count

\* ------------------------------------------------------------------ helpers

Min(a, b) == IF a < b THEN a ELSE b

NoResult == [kind |-> "none", page |-> 0, shown |-> 0, len |-> 0]

\* `return []` of run().
EmptyResult(p) == [kind |-> "empty", page |-> p, shown |-> 0, len |-> 0]

\* The list built by crawl_review_items: one dict per located element.
ItemsResult(p, s, n) == [kind |-> "items", page |-> p, shown |-> s, len |-> n]

Terminal == {"KeyboardInterrupt", "BlockedException"}

Transient == {"TimeoutException", "AssertionError", "WebDriverException"}


\* --------------------------------------------------------- the remote site

\* Number of pages of the site that hold items.
SitePages(n) == (n + NUM_ITEMS_PER_PAGE - 1) \div NUM_ITEMS_PER_PAGE

\* Number of items the site shows on page p: full pages of NUM_ITEMS_PER_PAGE,
\* the remainder on the last page, none on a page that does not exist.
ItemsOn(n, p) ==
    IF p \in 1..SitePages(n)
    THEN Min(NUM_ITEMS_PER_PAGE, n - NUM_ITEMS_PER_PAGE * (p - 1))
    ELSE 0

\* What slot k of the paginator is while window w is displayed, on a site of
\* np pages.  First window: slots 1..10 are pages 1..10, slot 11 advances.
\* Later windows: slot 1 goes back, slots 2..11 are the ten pages of the
\* window, slot 12 advances.  A slot whose page or window does not exist is
\* not on the screen.
Slot(w, k, np) ==
    IF w = 0
    THEN IF k \in 1..10 /\ k <= np THEN [kind |-> "page", page |-> k]
         ELSE IF k = 11 /\ np > 10 THEN [kind |-> "advance", page |-> 11]
         ELSE [kind |-> "none", page |-> 0]
    ELSE IF k = 1 THEN [kind |-> "back", page |-> 0]
         ELSE IF k \in 2..11 /\ 10 * w + k - 1 <= np
              THEN [kind |-> "page", page |-> 10 * w + k - 1]
         ELSE IF k = 12 /\ np > 10 * (w + 1)
              THEN [kind |-> "advance", page |-> 10 * (w + 1) + 1]
         ELSE [kind |-> "none", page |-> 0]

\* Pages the browser may display after a click on a slot of the given kind.
\* An advance displays the first page of the next window; which page of the
\* previous window the back control displays is not fixed.
PagesAfterClick(w, s) ==
    IF s.kind = "back" THEN (10 * (w - 1) + 1)..(10 * (w - 1) + 10)
    ELSE {s.page}

WindowAfterClick(w, s) ==
    IF s.kind = "advance" THEN w + 1
    ELSE IF s.kind = "back" THEN w - 1
    ELSE w

\* ------------------------------------------------------------ run and _run

\* Mutant of RunReturnsOn: BlockedException is not in the first except clause.
RunReturnsOnInterruptOnly(e) == e = "KeyboardInterrupt"

\* Mutant of RunReturnsOn: every exception makes run() return [].
RunReturnsOnAny(e) == TRUE

\* run(): `except (KeyboardInterrupt, BlockedException): return []`; every
\* other exception falls to `except BaseException` and the loop goes round.
RunReturnsOn(e) == e \in {"KeyboardInterrupt", "BlockedException"}

\* Mutant of QuitsOnException: the except clause quits whatever args.debug is.
QuitsOnExceptionAlways(e, dbg) == e # "KeyboardInterrupt"

\* _run(): `except Exception` does not catch KeyboardInterrupt, and the
\* handler quits the handle only when args.debug is off.
QuitsOnException(e, dbg) == e # "KeyboardInterrupt" /\ ~dbg

\* Mutant of TimeoutAfterFailure: the handler adds one to the timeout.
TimeoutPenalized(t) == t + 1

\* The handler of run() leaves the timeout of the waits as it is.
TimeoutAfterFailure(t) == t

\* An exception e leaves _run() of worker w and reaches the handlers of run().
\* While `history` is set the failures and the attempts are counted, and the
\* count of failures is capped; otherwise the retry loop is a plain cycle.
Raise(w, e) ==
    /\ (history /\ e \in Transient) => nfail < MaxFails
    /\ exc' = [exc EXCEPT ![w] = e]
    /\ drv' = [drv EXCEPT ![w] = FALSE]
    /\ leaked' = IF drv[w] /\ ~QuitsOnException(e, debug) THEN leaked + 1 ELSE leaked
    /\ nfail' = IF history /\ e \in Transient THEN nfail + 1 ELSE nfail
    /\ abandoned' = IF e \in Terminal THEN abandoned \cup {task[w]} ELSE abandoned
    /\ IF RunReturnsOn(e)
       THEN /\ pc' = [pc EXCEPT ![w] = "returned"]
            /\ ret' = [ret EXCEPT ![w] = EmptyResult(page[w])]
            /\ UNCHANGED <<attempts, timeout>>
       ELSE /\ pc' = [pc EXCEPT ![w] = "open_chromedriver"]
            /\ attempts' = [attempts EXCEPT ![w] = IF history THEN @ + 1 ELSE @]
            /\ timeout' = TimeoutAfterFailure(timeout)
            /\ UNCHANGED ret
    /\ UNCHANGED <<mainVars, poolVars, browserVars, task, page>>

\* open_chromedriver: a fresh browser with nothing loaded.
OpenChromedriver(w) ==
    /\ pc[w] = "open_chromedriver"
    /\ pc' = [pc EXCEPT ![w] = "load_webpage"]
    /\ drv' = [drv EXCEPT ![w] = TRUE]
    /\ exc' = [exc EXCEPT ![w] = "none"]
    /\ shown' = [shown EXCEPT ![w] = 0]
    /\ win' = [win EXCEPT ![w] = 0]
    /\ clicks' = [clicks EXCEPT ![w] = <<>>]
    /\ i' = [i EXCEPT ![w] = 0]
    /\ sorted' = [sorted EXCEPT ![w] = FALSE]
    /\ UNCHANGED <<mainVars, poolVars, task, page, attempts, ret, nfail, timeout,
                   leaked, abandoned>>

\* load_webpage, the location is not the blocked one: page 1 is displayed.
LoadWebpage(w) ==
    /\ pc[w] = "load_webpage"
    /\ pc' = [pc EXCEPT ![w] = "sort"]
    /\ shown' = [shown EXCEPT ![w] = 1]
    /\ UNCHANGED <<mainVars, poolVars, workerVarsButPc, win, clicks, i, sorted>>


\* load_webpage, the location is the blocked one: BlockedException.
LoadBlocked(w) ==
    /\ pc[w] = "load_webpage"
    /\ Raise(w, "BlockedException")

\* Mutant of SortClicked: the sort button is clicked whatever the order.
SortClickedAlways(order) == TRUE

\* _run(): `if args.sort_with == 'recent'`.
SortClicked(order) == order = "recent"

\* `if args.sort_with == 'recent': wait_and_click_button(sort button)`.
\* The site shows page 1 of the chosen order.
Sort(w) ==
    /\ pc[w] = "sort"
    /\ pc' = [pc EXCEPT ![w] = "goto_page"]
    /\ sorted' = [sorted EXCEPT ![w] = SortClicked(sort_with)]
    /\ UNCHANGED <<mainVars, poolVars, workerVarsButPc, shown, win, clicks, i>>

\* click_pagination_button(index): the wait finds slot k and clicks it, or
\* times out when the slot is not on the screen.  `then` and `loop` are the
\* position and the loop variable after the click.
Click(w, k, then, loop) ==
    LET s == Slot(win[w], k, SitePages(num_review)) IN
    IF s.kind = "none"
    THEN Raise(w, "TimeoutException")
    ELSE /\ clicks' = [clicks EXCEPT ![w] = Append(@, k)]
         /\ win' = [win EXCEPT ![w] = WindowAfterClick(@, s)]
         /\ \E p \in PagesAfterClick(win[w], s) : shown' = [shown EXCEPT ![w] = p]
         /\ pc' = [pc EXCEPT ![w] = then]
         /\ i' = [i EXCEPT ![w] = loop]
         /\ UNCHANGED <<mainVars, poolVars, workerVarsButPc, sorted>>

\* goto_page: `range((args.page_number - 1) // 10)`.
Advances(p) == (p - 1) \div 10

\* Mutant of AdvanceSlot: every advance click at slot 11.
AdvanceSlotAlways11(n) == 11

\* goto_page: slot of the i-th advance click (i from 0).
AdvanceSlot(n) == IF n = 0 THEN 11 ELSE 12

\* goto_page: `if (args.page_number - 1) % 10 > 1`.
HasLastClick(p) == (p - 1) % 10 > 1

\* goto_page: `args.page_number % 10 + 1`.
LastSlot(p) == (p % 10) + 1

\* goto_page, `if args.page_number < 11`: one click at slot page_number.
GotoDirect(w) ==
    /\ pc[w] = "goto_page"
    /\ page[w] < 11
    /\ Click(w, page[w], "crawl_review_items", i[w])

\* goto_page, one iteration of the for loop.
GotoAdvance(w) ==
    /\ pc[w] = "goto_page"
    /\ page[w] >= 11
    /\ i[w] < Advances(page[w])
    /\ Click(w, AdvanceSlot(i[w]), "goto_page", i[w] + 1)

\* goto_page, after the loop: the last click, when there is one.
GotoLast(w) ==
    /\ pc[w] = "goto_page"
    /\ page[w] >= 11
    /\ i[w] = Advances(page[w])
    /\ IF HasLastClick(page[w])
       THEN Click(w, LastSlot(page[w]), "crawl_review_items", i[w])
       ELSE /\ pc' = [pc EXCEPT ![w] = "crawl_review_items"]
            /\ UNCHANGED <<mainVars, poolVars, workerVarsButPc, browserVars>>

\* Mutant of CountAccepted: the assertion rejects every page.
CountAcceptedNever(n) == n > NUM_ITEMS_PER_PAGE

\* Mutant of CountAccepted: the assertion is missing.
CountAcceptedAny(n) == TRUE

\* crawl_review_items: `assert len(review_items) == 20`.
CountAccepted(n) == n = 20

\* crawl_review_items: the wait times out when no item is visible, the
\* assertion fails on any count but 20, otherwise one dict per item is built.
CrawlReviewItems(w) ==
    /\ pc[w] = "crawl_review_items"
    /\ LET n == ItemsOn(num_review, shown[w]) IN
       IF n = 0 THEN Raise(w, "TimeoutException")
       ELSE IF ~CountAccepted(n) THEN Raise(w, "AssertionError")
       ELSE /\ pc' = [pc EXCEPT ![w] = "quit"]
            /\ ret' = [ret EXCEPT ![w] = ItemsResult(page[w], shown[w], n)]
            /\ UNCHANGED <<mainVars, poolVars, browserVars, task, page, attempts,
                           exc, drv, nfail, timeout, leaked, abandoned>>

\* `chromedriver.quit(); return review_items`, and run() returns the list.
Quit(w) ==
    /\ pc[w] = "quit"
    /\ pc' = [pc EXCEPT ![w] = "returned"]
    /\ drv' = [drv EXCEPT ![w] = FALSE]
    /\ UNCHANGED <<mainVars, poolVars, browserVars, task, page, attempts, exc, ret,
                   nfail, timeout, leaked, abandoned>>

\* The exception a failing step of _run raises: the driver's own error from
\* Chrome() and get(), a timeout from the waits.
FailureAt(w) ==
    IF pc[w] \in {"open_chromedriver", "load_webpage"} THEN "WebDriverException"
    ELSE "TimeoutException"

\* The steps of _run that call the driver and can fail.
CanFail(w) ==
    \/ pc[w] \in {"open_chromedriver", "load_webpage", "crawl_review_items"}
    \/ pc[w] = "sort" /\ sort_with = "recent"
    \/ pc[w] = "goto_page"
       /\ (page[w] < 11 \/ i[w] < Advances(page[w]) \/ HasLastClick(page[w]))

\* A step of _run fails for a reason of the environment.
Fail(w) ==
    /\ CanFail(w)
    /\ Raise(w, FailureAt(w))

\* KeyboardInterrupt reaches the worker while it is inside run().
Interrupt(w) ==
    /\ pc[w] \in {"open_chromedriver", "load_webpage", "sort", "goto_page",
                  "crawl_review_items", "quit"}
    /\ Raise(w, "KeyboardInterrupt")

\* ------------------------------------------------------------ the process pool

Range(f) == {f[k] : k \in DOMAIN f}

\* Mutant of AfterTake: the task handed out stays at the head of the queue.
AfterTakeSame(n) == n

\* Pool: the task queue after a worker has taken the task of index n.
AfterTake(n) == n + 1

\* Pool: a free worker takes the next task of args_list and calls run() on it.
\* The workers are identical processes, so among the free ones the one with
\* the least number stands for whichever the queue wakes.
TakeTask(w) ==
    /\ mainPc = "imap"
    /\ pc[w] = "idle"
    /\ \A v \in 1..(w - 1) : pc[v] # "idle"
    /\ nextTask <= Len(page_numbers)
    /\ nextTask' = AfterTake(nextTask)
    /\ pc' = [pc EXCEPT ![w] = "open_chromedriver"]
    /\ task' = [task EXCEPT ![w] = nextTask]
    /\ page' = [page EXCEPT ![w] = page_numbers[nextTask]]
    /\ attempts' = [attempts EXCEPT ![w] = 1]
    /\ UNCHANGED <<mainVars, results, overtaken, collected, review_list, browserVars,
                   exc, drv, ret, nfail, timeout, leaked, abandoned>>

\* Pool: the value run() returned is sent back and stored under the task's
\* index; the worker is free again.
Deliver(w) ==
    /\ mainPc = "imap"
    /\ pc[w] = "returned"
    /\ results' = [results EXCEPT ![task[w]] = ret[w]]
    /\ overtaken' = (overtaken \/ \E k \in 1..(task[w] - 1) : results[k].kind = "none")
    /\ pc' = [pc EXCEPT ![w] = "idle"]
    /\ task' = [task EXCEPT ![w] = 0]
    /\ page' = [page EXCEPT ![w] = 0]
    /\ attempts' = [attempts EXCEPT ![w] = 0]
    /\ exc' = [exc EXCEPT ![w] = "none"]
    /\ ret' = [ret EXCEPT ![w] = NoResult]
    /\ shown' = [shown EXCEPT ![w] = 0]
    /\ win' = [win EXCEPT ![w] = 0]
    /\ clicks' = [clicks EXCEPT ![w] = <<>>]
    /\ i' = [i EXCEPT ![w] = 0]
    /\ sorted' = [sorted EXCEPT ![w] = FALSE]
    /\ UNCHANGED <<mainVars, nextTask, collected, review_list, drv, nfail, timeout,
                   leaked, abandoned>>

\* Mutant of Yieldable: imap_unordered, results yielded as they arrive.
YieldableUnordered(res, col) ==
    {k \in DOMAIN res : k \notin Range(col) /\ res[k].kind # "none"}

\* pool.imap: the indices whose result the iterator can yield next, given the
\* buffer and the indices already yielded: the next index in submission
\* order, once its result has arrived.
Yieldable(res, col) ==
    {k \in DOMAIN res : k = Len(col) + 1 /\ res[k].kind # "none"}

\* Mutant of Drained: run_all stops gathering after the first result.
DrainedAtFirst(col, pages) == Len(col) >= 1

\* run_all: the comprehension ends when imap has yielded one result per
\* element of args_list.
Drained(col, pages) == Len(col) = Len(pages)

\* run_all: the comprehension takes the next page result from imap; after the
\* last one the pool is closed and run_all returns the frame.
Collect ==
    /\ mainPc = "imap"
    /\ \E k \in Yieldable(results, collected) :
         /\ collected' = Append(collected, k)
         /\ review_list' = Append(review_list, results[k])
    /\ mainPc' = IF Drained(collected', page_numbers) THEN "to_excel" ELSE "imap"
    /\ UNCHANGED <<num_review, max_page, max_page_given, cpu_count, debug, sort_with,
                   infoDrv, info, history, page_numbers, written, nextTask, results,
                   overtaken, browserVars, workerVars>>

\* ------------------------------------------------------------ the main process

\* Mutant of GetInfoNext: the failure of get_info is swallowed.
GetInfoNextAlwaysMain(outcome) == "main"

\* __main__ after get_info: the exception get_info raises is caught nowhere
\* and ends the program; otherwise the script goes on.
GetInfoNext(outcome) == IF outcome = "found" THEN "main" ELSE "failed"

\* get_info: opens a handle and loads the page; reads the count on the review
\* tab and quits the handle, or raises when the tab is missing or the
\* location is the blocked one (nothing quits the handle then).
GetInfo ==
    /\ mainPc = "get_info"
    /\ \E outcome \in {"found", "no_tab", "blocked"} :
         /\ info' = outcome
         /\ mainPc' = GetInfoNext(outcome)
         /\ infoDrv' = IF outcome = "found" THEN "quit" ELSE "open"
    /\ UNCHANGED <<num_review, max_page, max_page_given, cpu_count, debug, sort_with,
                   history, page_numbers, written, poolVars, browserVars, workerVars>>

\* `min((num_review // NUM_ITEMS_PER_PAGE) + 1, MAX_NUM_PAGE)`.
PageCount(n) == Min((n \div NUM_ITEMS_PER_PAGE) + 1, MAX_NUM_PAGE)

\* `if not args.max_page: args.max_page = ...`, then run_all builds one
\* Namespace per page number of range(1, max_page + 1) and opens the pool.
RunAllStart ==
    /\ mainPc = "main"
    /\ max_page' = IF max_page = 0 THEN PageCount(num_review) ELSE max_page
    /\ page_numbers' = [k \in 1..max_page' |-> k]
    /\ results' = [k \in 1..max_page' |-> NoResult]
    /\ nextTask' = 1
    /\ mainPc' = "imap"
    /\ UNCHANGED <<num_review, max_page_given, cpu_count, debug, sort_with, infoDrv,
                   info, history, written, overtaken, collected, review_list,
                   browserVars, workerVars>>

\* `df.to_excel(filepath, index=False)`.
ToExcel ==
    /\ mainPc = "to_excel"
    /\ written' = TRUE
    /\ mainPc' = "done"
    /\ UNCHANGED <<num_review, max_page, max_page_given, cpu_count, debug, sort_with,
                   infoDrv, info, history, page_numbers, poolVars, browserVars,
                   workerVars>>

\* ------------------------------------------------------------ specifications

\* The workers before any task: no handle, nothing displayed.
InitWorkers(n) ==
    /\ pc = [w \in 1..n |-> "idle"]
    /\ task = [w \in 1..n |-> 0]
    /\ page = [w \in 1..n |-> 0]
    /\ attempts = [w \in 1..n |-> 0]
    /\ exc = [w \in 1..n |-> "none"]
    /\ drv = [w \in 1..n |-> FALSE]
    /\ ret = [w \in 1..n |-> NoResult]
    /\ shown = [w \in 1..n |-> 0]
    /\ win = [w \in 1..n |-> 0]
    /\ clicks = [w \in 1..n |-> <<>>]
    /\ i = [w \in 1..n |-> 0]
    /\ sorted = [w \in 1..n |-> FALSE]
    /\ nfail = 0
    /\ timeout = WAIT_TIMEOUT
    /\ leaked = 0
    /\ abandoned = {}

\* The program after parse_args, on a small site, with the default sort order
\* (SpecNav explores both).
Init ==
    /\ num_review \in Reviews
    /\ max_page \in MaxPageArgs
    /\ max_page_given = (max_page # 0)
    /\ cpu_count \in 1..MaxCpu
    /\ debug \in BOOLEAN
    /\ sort_with = "recent"
    /\ mainPc = "get_info"
    /\ infoDrv = "none"
    /\ info = "none"
    /\ history = TRUE
    /\ page_numbers = <<>>
    /\ written = FALSE
    /\ nextTask = 1
    /\ results = <<>>
    /\ overtaken = FALSE
    /\ collected = <<>>
    /\ review_list = <<>>
    /\ InitWorkers(cpu_count)

\* The pages of the small site are all below 11, so goto_page takes its
\* first branch only; SpecNav covers the others.
Next ==
    \/ GetInfo
    \/ RunAllStart
    \/ \E w \in Workers : TakeTask(w)
    \/ \E w \in Workers : OpenChromedriver(w)
    \/ \E w \in Workers : LoadWebpage(w)
    \/ \E w \in Workers : LoadBlocked(w)
    \/ \E w \in Workers : Sort(w)
    \/ \E w \in Workers : GotoDirect(w)
    \/ \E w \in Workers : CrawlReviewItems(w)
    \/ \E w \in Workers : Quit(w)
    \/ \E w \in Workers : Fail(w)
    \/ \E w \in Workers : Interrupt(w)
    \/ \E w \in Workers : Deliver(w)
    \/ Collect
    \/ ToExcel

Spec == Init /\ [][Next]_vars

\* One worker enters run() for the task of page p, for every p up to
\* MAX_NUM_PAGE, on a site whose MAX_NUM_PAGE pages are all full.
InitNav ==
    /\ num_review = MAX_NUM_PAGE * NUM_ITEMS_PER_PAGE
    /\ max_page = MAX_NUM_PAGE
    /\ max_page_given = FALSE
    /\ cpu_count = 1
    /\ debug \in BOOLEAN
    /\ sort_with \in {"ranking", "recent"}
    /\ mainPc = "imap"
    /\ infoDrv = "quit"
    /\ info = "found"
    /\ history = TRUE
    /\ \E p \in 1..MAX_NUM_PAGE :
         /\ page_numbers = <<p>>
         /\ page = [w \in 1..1 |-> p]
    /\ written = FALSE
    /\ nextTask = 2
    /\ results = <<NoResult>>
    /\ overtaken = FALSE
    /\ collected = <<>>
    /\ review_list = <<>>
    /\ pc = [w \in 1..1 |-> "open_chromedriver"]
    /\ task = [w \in 1..1 |-> 1]
    /\ attempts = [w \in 1..1 |-> 1]
    /\ exc = [w \in 1..1 |-> "none"]
    /\ drv = [w \in 1..1 |-> FALSE]
    /\ ret = [w \in 1..1 |-> NoResult]
    /\ shown = [w \in 1..1 |-> 0]
    /\ win = [w \in 1..1 |-> 0]
    /\ clicks = [w \in 1..1 |-> <<>>]
    /\ i = [w \in 1..1 |-> 0]
    /\ sorted = [w \in 1..1 |-> FALSE]
    /\ nfail = 0
    /\ timeout = WAIT_TIMEOUT
    /\ leaked = 0
    /\ abandoned = {}

NextNav ==
    \/ \E w \in Workers : OpenChromedriver(w)
    \/ \E w \in Workers : LoadWebpage(w)
    \/ \E w \in Workers : LoadBlocked(w)
    \/ \E w \in Workers : Sort(w)
    \/ \E w \in Workers : GotoDirect(w)
    \/ \E w \in Workers : GotoAdvance(w)
    \/ \E w \in Workers : GotoLast(w)
    \/ \E w \in Workers : CrawlReviewItems(w)
    \/ \E w \in Workers : Quit(w)
    \/ \E w \in Workers : Fail(w)
    \/ \E w \in Workers : Interrupt(w)

SpecNav == InitNav /\ [][NextNav]_vars

\* The program after parse_args for the options --max-page m, --cpu-count c
\* and --debug d, on a site of n reviews.
InitProgram(n, m, c, d) ==
    /\ num_review = n
    /\ max_page = m
    /\ max_page_given = (m # 0)
    /\ cpu_count = c
    /\ debug = d
    /\ sort_with = "recent"
    /\ mainPc = "get_info"
    /\ infoDrv = "none"
    /\ info = "none"
    /\ page_numbers = <<>>
    /\ written = FALSE
    /\ nextTask = 1
    /\ results = <<>>
    /\ overtaken = FALSE
    /\ collected = <<>>
    /\ review_list = <<>>
    /\ InitWorkers(c)

\* Pages and processes of the end-to-end run: three full pages, two workers.
LivePages == 3

LiveCpu == 2

\* The run with --max-page 3 --cpu-count 2 on a site of three full pages.
InitLive ==
    /\ history = TRUE
    /\ InitProgram(LivePages * NUM_ITEMS_PER_PAGE, LivePages, LiveCpu, FALSE)

\* A pool process that has a step of run() or a task to take goes on: the
\* steps a worker process takes by itself, the failures left out.
Progress(w) ==
    /\ w \in Workers
    /\ \/ TakeTask(w)
       \/ OpenChromedriver(w)
       \/ LoadWebpage(w)
       \/ Sort(w)
       \/ GotoDirect(w)
       \/ GotoAdvance(w)
       \/ GotoLast(w)
       \/ CrawlReviewItems(w)
       \/ Quit(w)
       \/ Deliver(w)

\* The main process goes on as well.
MainProgress == GetInfo \/ RunAllStart \/ Collect \/ ToExcel

\* The operating system schedules every process of the pool and the main
\* process: a step that stays possible is eventually taken.
Fairness ==
    /\ \A w \in 1..LiveCpu : WF_vars(Progress(w))
    /\ WF_vars(MainProgress)

SpecLive == InitLive /\ [][Next]_vars /\ Fairness

\* The pool of one process about to call run() on the single task of page
\* p, on a site whose MAX_NUM_PAGE pages are all full.
InitCall(p) ==
    /\ num_review = MAX_NUM_PAGE * NUM_ITEMS_PER_PAGE
    /\ max_page = MAX_NUM_PAGE
    /\ max_page_given = FALSE
    /\ cpu_count = 1
    /\ debug \in BOOLEAN
    /\ sort_with \in {"ranking", "recent"}
    /\ mainPc = "imap"
    /\ infoDrv = "quit"
    /\ info = "found"
    /\ page_numbers = <<p>>
    /\ written = FALSE
    /\ nextTask = 1
    /\ results = <<NoResult>>
    /\ overtaken = FALSE
    /\ collected = <<>>
    /\ review_list = <<>>
    /\ InitWorkers(1)

\* run() on a task of any page number, those below 1 included.
InitPlan ==
    /\ history = TRUE
    /\ \E p \in (1 - BelowOne)..MAX_NUM_PAGE : InitCall(p)

\* The call of run() with no failure but those the code brings about itself.
NextPlan ==
    \/ \E w \in Workers : TakeTask(w)
    \/ \E w \in Workers : OpenChromedriver(w)
    \/ \E w \in Workers : LoadWebpage(w)
    \/ \E w \in Workers : Sort(w)
    \/ \E w \in Workers : GotoDirect(w)
    \/ \E w \in Workers : GotoAdvance(w)
    \/ \E w \in Workers : GotoLast(w)
    \/ \E w \in Workers : CrawlReviewItems(w)
    \/ \E w \in Workers : Quit(w)

SpecPlan == InitPlan /\ [][NextPlan]_vars

\* Review counts of the fault-free site: one item; a full page and a short
\* one; two full pages; eleven full pages and a short one.
SiteReviews == {1, 25, 40, 225}

\* The program without --max-page on a site that never fails by itself.
\* No history is kept, so an attempt that repeats is the same state again.
InitSite ==
    /\ history = FALSE
    /\ \E n \in SiteReviews, c \in 1..LiveCpu : InitProgram(n, 0, c, FALSE)

\* The program with no Blocked location, no interrupt and no failure of the
\* environment: what is left is what the code does against the site.
NextSite ==
    \/ GetInfo
    \/ RunAllStart
    \/ \E w \in Workers : TakeTask(w)
    \/ \E w \in Workers : OpenChromedriver(w)
    \/ \E w \in Workers : LoadWebpage(w)
    \/ \E w \in Workers : Sort(w)
    \/ \E w \in Workers : GotoDirect(w)
    \/ \E w \in Workers : GotoAdvance(w)
    \/ \E w \in Workers : GotoLast(w)
    \/ \E w \in Workers : CrawlReviewItems(w)
    \/ \E w \in Workers : Quit(w)
    \/ \E w \in Workers : Deliver(w)
    \/ Collect
    \/ ToExcel

SpecSite == InitSite /\ [][NextSite]_vars /\ Fairness

\* The main process for every review count, up to the dispatch.
InitMain ==
    /\ num_review \in 0..MaxReview
    /\ max_page \in MaxPageArgs
    /\ max_page_given = (max_page # 0)
    /\ cpu_count = 1
    /\ debug = FALSE
    /\ sort_with = "recent"
    /\ mainPc = "get_info"
    /\ infoDrv = "none"
    /\ info = "none"
    /\ history = TRUE
    /\ page_numbers = <<>>
    /\ written = FALSE
    /\ nextTask = 1
    /\ results = <<>>
    /\ overtaken = FALSE
    /\ collected = <<>>
    /\ review_list = <<>>
    /\ InitWorkers(cpu_count)

NextMain ==
    \/ GetInfo
    \/ RunAllStart

SpecMain == InitMain /\ [][NextMain]_vars


\* ------------------------------------------------------------------ claims

\* The click plan of a page as the specification states it in closed form.
PlanAdvances(p) == [j \in 1..((p - 1) \div 10) |-> IF j = 1 THEN 11 ELSE 12]

Plan(p) ==
    IF p <= 10 THEN <<p>>
    ELSE PlanAdvances(p) \o (IF (p - 1) % 10 > 1 THEN <<(p % 10) + 1>> ELSE <<>>)

\* C1: once goto_page has finished, the clicks it issued are exactly the
\* plan of the page (one click at slot p for p in 1..10; otherwise
\* floor((p-1)/10) advance clicks, slot 11 first and slot 12 afterwards, then
\* one click at slot (p mod 10)+1 when (p-1) mod 10 > 1), and while it runs
\* the clicks issued so far are a prefix of the plan.
C1_GotoPagePlan ==
    \A w \in Workers :
        /\ pc[w] \in {"crawl_review_items", "quit"} => clicks[w] = Plan(page[w])
        /\ pc[w] = "goto_page" =>
              /\ Len(clicks[w]) <= Len(Plan(page[w]))
              /\ clicks[w] = SubSeq(Plan(page[w]), 1, Len(clicks[w]))

C1_Witness ==
    \E w \in Workers :
        /\ pc[w] = "crawl_review_items"
        /\ page[w] = 25
        /\ clicks[w] = <<11, 12, 6>>

\* C2: when goto_page has finished on a freshly loaded resource, the page
\* displayed is the page of the task.
C2_LandsOnTarget ==
    \A w \in Workers : pc[w] = "crawl_review_items" => shown[w] = page[w]

\* C3: every value run() returns, and every value the pool stores, has
\* length 0 or NUM_ITEMS_PER_PAGE.
C3_ResultLength ==
    /\ \A w \in Workers :
          pc[w] = "returned" => ret[w].len \in {0, NUM_ITEMS_PER_PAGE}
    /\ \A k \in DOMAIN results : results[k].len \in {0, NUM_ITEMS_PER_PAGE}

C3_Witness ==
    /\ nfail > 0
    /\ \E k \in DOMAIN results : results[k].kind = "items" /\ results[k].len = 20
    /\ \E k \in DOMAIN results : results[k].kind = "empty" /\ results[k].len = 0

\* C4: the page results gathered by run_all are in submission order: the
\* k-th gathered result is the result of the k-th submitted page, whatever
\* the order in which the tasks finished.
C4_SubmissionOrder ==
    /\ Len(review_list) <= Len(page_numbers)
    /\ \A k \in 1..Len(review_list) : review_list[k].page = page_numbers[k]

C4_Witness ==
    /\ overtaken
    /\ Len(review_list) >= 2
    /\ \A k \in 1..2 : review_list[k].kind = "items"

RECURSIVE Rows(_)
Rows(list) == IF list = <<>> THEN 0 ELSE Head(list).len + Rows(Tail(list))

\* C5: when run_all has returned, the number of rows equals
\* NUM_ITEMS_PER_PAGE times the number of submitted tasks that were not
\* abandoned.
C5_RowCount ==
    mainPc \in {"to_excel", "done"} =>
        Rows(review_list) =
            NUM_ITEMS_PER_PAGE * Cardinality(DOMAIN page_numbers \ abandoned)

C5_Witness ==
    /\ mainPc = "done"
    /\ abandoned # {}
    /\ DOMAIN page_numbers \ abandoned # {}

\* The step ends an attempt of worker w with an exception of the set E.
Ended(w, E) ==
    /\ pc[w] \notin {"idle", "returned"}
    /\ exc'[w] \in E
    /\ <<pc[w], attempts[w]>>' # <<pc[w], attempts[w]>>

\* C6: an attempt that ends with Blocked or an interrupt makes run() return
\* an empty result at once, and the task gets no further attempt.
C6_AbandonOnTerminal ==
    [][\A w \in Workers :
          /\ Ended(w, Terminal) =>
                /\ pc'[w] = "returned"
                /\ ret'[w].kind = "empty" /\ ret'[w].len = 0
                /\ attempts'[w] = attempts[w]
          /\ (pc[w] = "returned" /\ exc[w] \in Terminal) =>
                /\ pc'[w] \in {"returned", "idle"}
                /\ attempts'[w] <= attempts[w]]_vars

C6_Witness ==
    \E w \in Workers :
        /\ pc[w] = "returned"
        /\ exc[w] = "BlockedException"
        /\ attempts[w] >= 2
        /\ ret[w].len = 0

\* C7: an attempt that ends with any other failure is followed by a new
\* attempt of the same task, whatever the number of failures before it; the
\* failure neither leaves run() nor becomes a result.
C7_RetryOnTransient ==
    [][\A w \in Workers :
          Ended(w, Transient) =>
              /\ pc'[w] = "open_chromedriver"
              /\ attempts'[w] = attempts[w] + 1
              /\ ret'[w].kind = "none"
              /\ task'[w] = task[w]]_vars

C7_Witness ==
    \E w \in Workers :
        /\ attempts[w] >= 3
        /\ pc[w] = "open_chromedriver"
        /\ exc[w] = "AssertionError"

C9_HandleReleased == ~debug => leaked = 0

\* C10: without --max-page, the number of page tasks dispatched is
\* min(ceil(num_review / NUM_ITEMS_PER_PAGE), MAX_NUM_PAGE).
C10_PageCountIsCeil ==
    (mainPc = "imap" /\ ~max_page_given) =>
        Len(page_numbers) =
            Min((num_review + NUM_ITEMS_PER_PAGE - 1) \div NUM_ITEMS_PER_PAGE,
                MAX_NUM_PAGE)

\* C11: when get_info has failed (the review tab was not found, or the
\* location was the blocked one) the program has ended: no page task exists,
\* no worker has started an attempt or opened a handle, nothing is written.
C11_NoWorkAfterFailedDiscovery ==
    info \in {"no_tab", "blocked"} =>
        /\ mainPc = "failed"
        /\ page_numbers = <<>>
        /\ nextTask = 1
        /\ ~written
        /\ leaked = 0
        /\ \A w \in Workers : pc[w] = "idle" /\ attempts[w] = 0 /\ ~drv[w]

C11_Witness ==
    /\ info = "no_tab"
    /\ mainPc = "failed"

\* C19: with debug off, once get_info has returned or raised, the handle it
\* opened has been quit.
C19_InfoHandleReleased == (~debug /\ info # "none") => infoDrv = "quit"

\* C12: the step that abandons one task changes no other worker, no stored
\* result and nothing of the pool; and when run_all has returned, the result
\* of every submitted page is in its output, a list of items for every page
\* that was not itself abandoned.
C12_SiblingsUntouched ==
    /\ [](mainPc \in {"to_excel", "done"} =>
            \A k \in DOMAIN page_numbers :
                \E j \in DOMAIN review_list :
                    /\ review_list[j].page = page_numbers[k]
                    /\ k \notin abandoned => review_list[j].kind = "items")
    /\ [][\A w \in Workers :
            Ended(w, Terminal) =>
                /\ \A v \in Workers \ {w} :
                      /\ pc'[v] = pc[v]
                      /\ task'[v] = task[v]
                      /\ attempts'[v] = attempts[v]
                      /\ ret'[v] = ret[v]
                /\ results' = results
                /\ nextTask' = nextTask
                /\ page_numbers' = page_numbers
                /\ mainPc' = mainPc]_vars

C12_Witness ==
    /\ mainPc = "to_excel"
    /\ 1 \in abandoned
    /\ Len(review_list) >= 2
    /\ review_list[1].kind = "empty"
    /\ review_list[2].kind = "items"

\* C13: the submitted page numbers are distinct; a task that has been handed
\* out is either held by exactly one worker or has its result stored, never
\* both; a task not yet handed out is held by nobody; imap yields no index
\* twice, and when run_all has returned its output holds exactly one result
\* per submitted index.
C13_OneWorkerPerTask ==
    /\ \A j, k \in DOMAIN page_numbers :
          j # k => page_numbers[j] # page_numbers[k]
    /\ \A k \in DOMAIN page_numbers :
          LET holders == {w \in Workers : task[w] = k} IN
          IF k < nextTask
          THEN \/ Cardinality(holders) = 1 /\ results[k].kind = "none"
               \/ holders = {} /\ results[k].kind # "none"
          ELSE holders = {} /\ results[k].kind = "none"
    /\ \A w \in Workers : task[w] # 0 => task[w] \in DOMAIN page_numbers
    /\ \A a, b \in DOMAIN collected : a # b => collected[a] # collected[b]
    /\ mainPc \in {"to_excel", "done"} =>
          /\ Range(collected) = DOMAIN page_numbers
          /\ Len(review_list) = Len(page_numbers)

C13_Witness ==
    /\ cpu_count = 2
    /\ mainPc = "done"
    /\ Len(page_numbers) = 3
    /\ \A k \in 1..2 : review_list[k].kind = "items"

C15_RunAllReturns ==
    /\ (mainPc = "imap") ~> (mainPc = "to_excel")
    /\ [](mainPc = "to_excel" =>
            /\ Len(review_list) = LivePages
            /\ \A k \in 1..LivePages :
                  /\ review_list[k].kind = "items" \/ k \in abandoned
                  /\ k \notin abandoned =>
                        /\ review_list[k].kind = "items"
                        /\ review_list[k].page = k
                        /\ review_list[k].len = NUM_ITEMS_PER_PAGE)

C15_Witness ==
    /\ mainPc = "to_excel"
    /\ cpu_count = LiveCpu
    /\ nfail >= 1
    /\ abandoned = {}
    /\ Len(review_list) = LivePages
    /\ \A k \in 1..LivePages : review_list[k].kind = "items"

\* The slot goto_page clicks next for page p after n advance clicks.
NextSlot(p, n) ==
    IF p < 11 THEN p
    ELSE IF n < Advances(p) THEN AdvanceSlot(n)
    ELSE LastSlot(p)

StepOrder ==
    {<<"open_chromedriver", "load_webpage">>, <<"load_webpage", "sort">>,
     <<"sort", "goto_page">>, <<"goto_page", "crawl_review_items">>,
     <<"crawl_review_items", "quit">>, <<"quit", "returned">>}

\* C17: every attempt, first or retry, goes open, load (with the blocked
\* check), sort, pagination clicks, item wait and extraction.  The sort
\* button is clicked once, after the load and before any pagination click,
\* when sort_with is recent, and not at all when it is ranking; an attempt
\* whose load is blocked clicks nothing.
C17_AttemptOrder ==
    [][\A w \in Workers :
          /\ pc'[w] # pc[w] =>
                \/ <<pc[w], pc'[w]>> \in StepOrder /\ exc'[w] = "none"
                \/ pc'[w] = "open_chromedriver" /\ exc'[w] \in Transient
                \/ pc'[w] = "returned" /\ exc'[w] \in Terminal
          /\ (sorted'[w] /\ ~sorted[w]) =>
                /\ sort_with = "recent"
                /\ pc[w] = "sort" /\ pc'[w] = "goto_page"
                /\ shown[w] = 1
                /\ clicks[w] = <<>>
          /\ (sorted[w] /\ ~sorted'[w]) =>
                pc[w] = "open_chromedriver" /\ pc'[w] = "load_webpage"
          /\ (pc[w] = "sort" /\ pc'[w] = "goto_page") =>
                sorted'[w] = (sort_with = "recent")
          /\ (clicks'[w] # clicks[w] /\ clicks'[w] # <<>>) =>
                /\ pc[w] = "goto_page"
                /\ sorted[w] = (sort_with = "recent")
                /\ shown[w] >= 1
                /\ exc[w] = "none"
          /\ sort_with = "ranking" => ~sorted[w] /\ ~sorted'[w]
          /\ exc'[w] = "BlockedException" =>
                /\ pc[w] \in {"load_webpage", "returned"}
                /\ pc'[w] = "returned"
                /\ ~sorted'[w]
                /\ clicks'[w] = <<>>]_vars

C17_Witness ==
    \E w \in Workers :
        /\ sort_with = "recent"
        /\ attempts[w] >= 2
        /\ page[w] >= 11
        /\ pc[w] = "crawl_review_items"
        /\ sorted[w]
        /\ clicks[w] # <<>>

\* C18: against a site without failures and without --max-page, every
\* dispatched task ends and run_all returns, whatever the review count.
C18_RunReturnsOnFaultFreeSite ==
    (mainPc = "imap") ~> (mainPc = "to_excel")

====
